---- MODULE Spec2Model ----
\* A state-machine model of NEAT_Trainer (src/flight_maneuvers/train.py):
\* the fit loop, the training and validation loop drivers, the scheduler
\* stepping policy, the optimizer/scheduler normalizer and the checkpoint
\* manager, together with the properties checked of them.
EXTENDS Integers, Sequences, FiniteSets, TLC

\* ---------------------------------------------------------------- bounds
\* Largest number of batches of the training batch source.
MaxBatches == 5
\* Largest number of batches of the validation batch source.
MaxValBatches == 2
\* Largest max_epochs a Trainer is constructed with.
MaxEpochsCfg == 3
\* Largest max_steps a Trainer is constructed with.
MaxStepsCfg == 2
\* Largest gradient-accumulation factor.
MaxAccum == 2
\* Largest validation_frequency / checkpoint_frequency.
MaxFreq == 2
\* Number of fit calls made on one Trainer.
MaxFits == 2
\* Number of checkpoints save writes before the latest one is looked up.
MaxFiles == 3
\* Cap on current_epoch for runs that nothing in the configuration ends.
EpochCap == 4
\* Largest current_value step_scheduler is called with on its own.
MaxCurrentValue == 4
\* Longest list or tuple configure_optimizers returns.
MaxSeqLen == 2

\* ------------------------------------------------------------- constants
\* Python's None for an Optional[int] (max_epochs, max_steps, val_loader).
NONE == -1
\* float("inf"), the default limit_batches of train_loop and val_loop.
INF == 1000000
\* The width of the zero-padded epoch number in a checkpoint's file name.
PadWidth == 4

\* ------------------------------------------------------ strings as codes
\* File names are sequences of character codes, compared as Python compares
\* strings.
Str_epoch == <<101, 112, 111, 99, 104, 45>>
Str_ckpt == <<46, 99, 107, 112, 116>>

RECURSIVE Decimal(_)
\* The decimal digits of a non-negative integer, as character codes.
Decimal(n) ==
    IF n < 10 THEN <<48 + n>> ELSE Decimal(n \div 10) \o <<48 + (n % 10)>>

\* Python's format spec 0<w>d: zero-pad on the left up to w characters, never
\* truncating.
ZeroPad(s, w) ==
    IF Len(s) >= w THEN s ELSE [i \in 1..(w - Len(s)) |-> 48] \o s

\* f"epoch-{current_epoch:04d}.ckpt"
CkptName(e) == Str_epoch \o ZeroPad(Decimal(e), PadWidth) \o Str_ckpt

\* Python's str.__lt__: the first differing character decides, and a proper
\* prefix is smaller.
StrLess(a, b) ==
    \/ \E i \in 1..Len(a) :
          /\ i <= Len(b)
          /\ \A j \in 1..(i - 1) : a[j] = b[j]
          /\ a[i] < b[i]
    \/ /\ Len(a) < Len(b)
       /\ \A j \in 1..Len(a) : a[j] = b[j]

\* ------------------------------------------------------------ filesystem
\* A directory is [exists, files]; a file is [name, rec]; rec is the
\* persisted record, a mapping from keys to values.
NoDir == [exists |-> FALSE, files |-> {}]
EmptyDir == [exists |-> TRUE, files |-> {}]

\* os.path.join(dir, name)
NoPath == [some |-> FALSE, dir |-> "", name |-> <<>>]
PathJoin(d, n) == [some |-> TRUE, dir |-> d, name |-> n]

\* sorted(os.listdir(d))[-1]
LastSorted(names) ==
    CHOOSE n \in names : \A m \in names : m = n \/ StrLess(m, n)

\* NEAT_Trainer.get_latest_checkpoint
get_latest_checkpoint(filesys, d) ==
    IF ~filesys[d].exists THEN NoPath
    ELSE IF filesys[d].files = {} THEN NoPath
    ELSE PathJoin(d, LastSorted({f.name : f \in filesys[d].files}))

\* The components of the state mapping assembled by fit.
StateKeys == {"model", "optim", "scheduler"}
CounterKeys == {"global_step", "current_epoch"}

\* state.update(global_step=..., current_epoch=...): the record save persists.
SaveRecord(gs, ep) ==
    [k \in StateKeys \cup CounterKeys |->
        IF k = "global_step" THEN gs
        ELSE IF k = "current_epoch" THEN ep
        ELSE 0]

\* fabric.save(path, state): creates the directory and (over)writes the file.
FabricSave(filesys, d, name, rec) ==
    [filesys EXCEPT ![d] =
        [exists |-> TRUE,
         files |-> {f \in filesys[d].files : f.name # name}
                   \cup {[name |-> name, rec |-> rec]}]]

\* The record stored at a path.
ReadFile(filesys, p) ==
    (CHOOSE f \in filesys[p.dir].files : f.name = p.name).rec

\* fabric.load(path, state): restores the keys of state and returns the rest.
FabricLoadRemainder(rec, stateKeys) ==
    [k \in (DOMAIN rec) \ stateKeys |-> rec[k]]

\* dict.pop(key) on a mapping: the mapping without the key.
Pop(m, key) == [k \in (DOMAIN m) \ {key} |-> m[k]]

\* The leftover checked before the counters are popped: every record is
\* refused.
load_CheckFirst(rec) ==
    LET remainder == FabricLoadRemainder(rec, StateKeys)
    IN [global_step |-> remainder["global_step"],
        current_epoch |-> remainder["current_epoch"],
        error |-> IF DOMAIN remainder # {} THEN "RuntimeError" ELSE "none"]

\* The two counters read from each other's key.
load_Swapped(rec) ==
    LET remainder == FabricLoadRemainder(rec, StateKeys)
        r1 == Pop(remainder, "global_step")
        r2 == Pop(r1, "current_epoch")
    IN [global_step |-> r1["current_epoch"],
        current_epoch |-> remainder["global_step"],
        error |-> IF DOMAIN r2 # {} THEN "RuntimeError" ELSE "none"]

\* NEAT_Trainer.load: the counters it sets and the error it raises.
load(rec) ==
    LET remainder == FabricLoadRemainder(rec, StateKeys)
        r1 == Pop(remainder, "global_step")
        r2 == Pop(r1, "current_epoch")
    IN [global_step |-> remainder["global_step"],
        current_epoch |-> r1["current_epoch"],
        error |-> IF DOMAIN r2 # {} THEN "RuntimeError" ELSE "none"]

\* ------------------------------------------------- configure_optimizers
\* The shapes configure_optimizers may return: an optimizer, a scheduler, a
\* mapping (a scheduler config), a list or tuple of shapes, or anything else.
EmptyMap == [k \in {} |-> 0]
OptObj(id) == [t |-> "Optimizable", id |-> id, m |-> EmptyMap, items |-> <<>>]
SchedObj(id) == [t |-> "LRScheduler", id |-> id, m |-> EmptyMap, items |-> <<>>]
MapObj(m) == [t |-> "Mapping", id |-> "", m |-> m, items |-> <<>>]
SeqObj(items) == [t |-> "Sequence", id |-> "", m |-> EmptyMap, items |-> items]
OtherObj == [t |-> "Other", id |-> "", m |-> EmptyMap, items |-> <<>>]

\* Strings that are concatenated are sequences of tokens: "train_" + k is
\* <<"train_">> \o k. The key None is a token of its own.
NoneKey == <<"<None>">>
TrainLoss == <<"train_", "loss">>
ValLoss == <<"val_", "loss">>

\* dict.update(other) as a value: other's items win.
Update(a, b) ==
    [k \in (DOMAIN a) \cup (DOMAIN b) |-> IF k \in DOMAIN b THEN b[k] ELSE a[k]]

\* _lr_sched_defaults
lr_sched_defaults ==
    [interval |-> "epoch", frequency |-> 1, monitor |-> ValLoss]

\* A scheduler config or None.
NoCfg == [present |-> FALSE, m |-> EmptyMap]
SomeCfg(m) == [present |-> TRUE, m |-> m]

\* The pair _parse_optimizers_schedulers returns, or the error it raises.
ParseResult(opt, cfg, err) == [opt |-> opt, cfg |-> cfg, err |-> err]

\* `return None, _lr_sched_defaults.update(scheduler=...)`: dict.update
\* returns None, so the scheduler component is None.
ParseSingleScheduler(x) == ParseResult("None", NoCfg, "none")

\* `return configure_optim_output[0][0], None`: subscripting the optimizer
\* itself, which raises TypeError.
ParseSingleOptimizerInList(x) == ParseResult("None", NoCfg, "TypeError")

RECURSIVE parse_optimizers_schedulers(_)
\* NEAT_Trainer._parse_optimizers_schedulers
parse_optimizers_schedulers(x) ==
    IF x.t = "Optimizable" THEN ParseResult(x.id, NoCfg, "none")
    ELSE IF x.t = "LRScheduler" THEN ParseSingleScheduler(x)
    ELSE IF x.t = "Mapping"
    THEN ParseResult("None", SomeCfg(Update(lr_sched_defaults, x.m)), "none")
    ELSE IF x.t = "Sequence"
    THEN IF \A i \in 1..Len(x.items) : x.items[i].t = "Optimizable"
         THEN IF Len(x.items) = 1
              THEN ParseSingleOptimizerInList(x)
              ELSE ParseResult("None", NoCfg, "NotImplementedError")
         ELSE IF \A i \in 1..Len(x.items) :
                    x.items[i].t \in {"LRScheduler", "Mapping"}
         THEN IF Len(x.items) = 1
              THEN LET r == parse_optimizers_schedulers(x.items[1])
                   IN ParseResult("None", r.cfg, r.err)
              ELSE ParseResult("None", NoCfg, "none")
         ELSE IF Len(x.items) = 2
         THEN LET a == parse_optimizers_schedulers(x.items[1])
                  b == parse_optimizers_schedulers(x.items[2])
              IN IF a.err # "none" THEN ParseResult("None", NoCfg, a.err)
                 ELSE IF b.err # "none" THEN ParseResult("None", NoCfg, b.err)
                 ELSE ParseResult(a.opt, b.cfg, "none")
         ELSE ParseResult("None", NoCfg, "none")
    ELSE ParseResult("None", NoCfg, "none")

\* ------------------------------------------------------- output records
\* What training_step / validation_step returned last: a mapping from
\* metric name to value, a bare tensor, or (initially) the empty mapping.
MappingOut(items) == [kind |-> "Mapping", items |-> items, v |-> 0]
TensorOut(v) == [kind |-> "Tensor", items |-> EmptyMap, v |-> v]
EmptyOut == MappingOut(EmptyMap)
LossKey == <<"loss">>

\* {prefix + k: v for k, v in ret.items()}
Prefixed(prefix, ret) ==
    [key \in {<<prefix>> \o k : k \in DOMAIN ret.items} |->
        ret.items[CHOOSE k \in DOMAIN ret.items : <<prefix>> \o k = key]]

\* The mapping built from the training output alone.
PossibleMonitorVals_TrainOnly(train_ret, val_ret) ==
    Update([k \in {NoneKey} |-> NONE], Prefixed("train_", train_ret))

\* possible_monitor_vals for two mapping outputs.
PossibleMonitorVals(train_ret, val_ret) ==
    Update(Update([k \in {NoneKey} |-> NONE], Prefixed("train_", train_ret)),
           Prefixed("val_", val_ret))

\* What a step_scheduler call does: nothing, one lr_scheduler_step with a
\* monitor value, or an error.
SchedResult(kind, monitor) == [kind |-> kind, monitor |-> monitor]

\* `possible_monitor_vals.update("train_loss", tensor)`: dict.update takes at
\* most one positional argument, so the call raises TypeError.
TensorMonitor(train_ret, val_ret) == SchedResult("TypeError", NONE)

\* step_scheduler without the frequency test.
step_scheduler_NoFrequency(cfg, level, current_value, train_ret, val_ret) ==
    IF ~cfg.present THEN SchedResult("noop", NONE)
    ELSE IF cfg.m.interval # level THEN SchedResult("noop", NONE)
    ELSE IF train_ret.kind = "Tensor" \/ val_ret.kind = "Tensor"
    THEN TensorMonitor(train_ret, val_ret)
    ELSE LET possible == PossibleMonitorVals(train_ret, val_ret)
         IN IF cfg.m.monitor \notin DOMAIN possible
            THEN SchedResult("KeyError", NONE)
            ELSE SchedResult("step", possible[cfg.m.monitor])

\* NEAT_Trainer.step_scheduler
step_scheduler(cfg, level, current_value, train_ret, val_ret) ==
    IF ~cfg.present THEN SchedResult("noop", NONE)
    ELSE IF cfg.m.interval # level THEN SchedResult("noop", NONE)
    ELSE IF current_value % cfg.m.frequency # 0 THEN SchedResult("noop", NONE)
    ELSE IF train_ret.kind = "Tensor" \/ val_ret.kind = "Tensor"
    THEN TensorMonitor(train_ret, val_ret)
    ELSE LET possible == PossibleMonitorVals(train_ret, val_ret)
         IN IF cfg.m.monitor \notin DOMAIN possible
            THEN SchedResult("KeyError", NONE)
            ELSE IF "scheduler" \notin DOMAIN cfg.m
            THEN SchedResult("KeyError", NONE)
            ELSE SchedResult("step", possible[cfg.m.monitor])

\* A step_scheduler call as the observer keeps it: the arguments, the two
\* retained outputs it read, and what it did.
CallOf(cfg, level, current_value, train_ret, val_ret) ==
    LET sr == step_scheduler(cfg, level, current_value, train_ret, val_ret)
    IN [made |-> TRUE, cfg |-> cfg, level |-> level, value |-> current_value,
        train |-> train_ret, val |-> val_ret, kind |-> sr.kind,
        monitor |-> sr.monitor]
NoCall ==
    [made |-> FALSE, cfg |-> NoCfg, level |-> "", value |-> 0,
     train |-> EmptyOut, val |-> EmptyOut, kind |-> "noop", monitor |-> NONE]

\* ------------------------------------------------------------ the state
VARIABLES
    \* NEAT_Trainer attributes set by __init__ and never changed.
    max_epochs, max_steps, grad_accum_steps, validation_frequency,
    checkpoint_frequency, strategy,
    \* The arguments of fit: the model (what its configure_optimizers,
    \* training_step and validation_step give) and the two batch sources.
    model, train_loader, val_loader,
    \* NEAT_Trainer attributes the loops change.
    global_step, current_epoch, should_stop,
    current_train_return, current_val_return,
    \* The fit call in progress: its position, its ckpt_path argument, the
    \* pair the normalizer returned, and the batch index of the running loop.
    pc, ckpt_path, optimizer, scheduler_cfg, batch_idx,
    \* torch's gradient switch and the model's train/eval mode.
    grad_enabled, model_mode,
    \* The directories: checkpoint_dir ("ckpt"), another directory holding
    \* checkpoints ("other") and a path that is no directory ("missing").
    fs,
    \* The exception the last fit call raised ("none" if it returned).
    error,
    \* Observers: what has happened, for the properties to speak about.
    fit_calls, optimizer_steps, aborted_steps, step_base, sched_steps,
    last_monitor, fit_epochs, fit_vals, fit_sched, fit_saves, resumed,
    start_files, written,
    \* What the fit call in progress or last made did with the backend:
    \* fabric.launch(), fabric.setup_dataloaders(...), fabric.setup(...).
    launched, loaders_setup, model_setup,
    \* The last step_scheduler call: its arguments and what it did.
    sched_call,
    \* The stop flag set from a hook, and the batches started in this fit
    \* call with the flag already set.
    stop_requests, late_train, late_val,
    \* The events of the last train_loop invocation (its two epoch hooks and
    \* its batches), the hooks and calls of its last batch, and the epoch in
    \* which the last validation batch completed.
    loop_events, batch_events, val_epoch

vars ==
    <<max_epochs, max_steps, grad_accum_steps, validation_frequency,
      checkpoint_frequency, strategy, model, train_loader, val_loader,
      global_step, current_epoch, should_stop, current_train_return,
      current_val_return, pc, ckpt_path, optimizer, scheduler_cfg, batch_idx,
      grad_enabled, model_mode, fs, error, fit_calls, optimizer_steps,
      aborted_steps, step_base, sched_steps, last_monitor, fit_epochs,
      fit_vals, fit_sched, fit_saves, resumed, start_files, written,
      launched, loaders_setup, model_setup, sched_call, stop_requests,
      late_train, late_val, loop_events, batch_events, val_epoch>>

config_vars ==
    <<max_epochs, max_steps, grad_accum_steps, validation_frequency,
      checkpoint_frequency, strategy, model, train_loader, val_loader>>
returns == <<current_train_return, current_val_return>>
fit_locals == <<ckpt_path, optimizer, scheduler_cfg>>
torch_vars == <<grad_enabled, model_mode>>
disk == <<fs, written>>
step_obs == <<optimizer_steps, aborted_steps, step_base>>
sched_obs == <<sched_steps, last_monitor, fit_sched, sched_call>>
fit_obs == <<fit_calls, fit_epochs, fit_vals, fit_saves, resumed, start_files>>
backend_obs == <<launched, loaders_setup, model_setup>>
stop_obs == <<stop_requests, late_train, late_val>>
hook_obs == <<loop_events, batch_events>>

\* self.checkpoint_dir
checkpoint_dir == "ckpt"

\* limit_batches as fit passes it to train_loop and val_loop: the default.
limit_batches == INF

\* ------------------------------------------------------- the inputs
\* A record as save writes it, and one with an unexpected key injected.
SavedFile(gs, ep) == [name |-> CkptName(ep), rec |-> SaveRecord(gs, ep)]
InjectedFile(gs, ep, key) ==
    [name |-> CkptName(ep),
     rec |-> Update(SaveRecord(gs, ep), [k \in {key} |-> 0])]
DirOf(files) == [exists |-> TRUE, files |-> files]

\* What checkpoint_dir holds before the first fit call.
InitialCkptDirs ==
    { NoDir, EmptyDir,
      DirOf({SavedFile(2, 1)}),
      DirOf({SavedFile(2, 1), SavedFile(4, 2)}),
      DirOf({SavedFile(6, 3)}),
      DirOf({SavedFile(2, 1), InjectedFile(4, 2, "hparams")}) }

\* The counters save was called with, by the name of the file it wrote.
WrittenBy(files) ==
    [n \in {f.name : f \in files} |->
        LET r == (CHOOSE f \in files : f.name = n).rec
        IN [current_epoch |-> r["current_epoch"],
            global_step |-> r["global_step"]]]

\* What a fit call restored: the path it loaded and the counters load set.
NotResumed == [path |-> NoPath, current_epoch |-> NONE, global_step |-> NONE]

\* The other directory: one checkpoint, of another run.
OtherDir == DirOf({SavedFile(9, 1)})

\* Scheduler configs as a model's configure_optimizers may give them.
StepTrainLossCfg ==
    [scheduler |-> "sched", interval |-> "step", monitor |-> TrainLoss]
StepValLossCfg ==
    [scheduler |-> "sched", interval |-> "step", frequency |-> 2,
     monitor |-> ValLoss]
DefaultsCfg == [scheduler |-> "sched"]
NoMonitorCfg == [scheduler |-> "sched", monitor |-> NoneKey]

\* The shapes of configure_optimizers' result that fit is run with.
ConfigureShapes ==
    { OptObj("opt"),
      SeqObj(<<OptObj("opt"), MapObj(StepTrainLossCfg)>>),
      SeqObj(<<OptObj("opt"), MapObj(StepValLossCfg)>>),
      SeqObj(<<OptObj("opt"), MapObj(DefaultsCfg)>>),
      SeqObj(<<OptObj("opt"), MapObj(NoMonitorCfg)>>),
      SeqObj(<<OptObj("opt"), SchedObj("sched")>>),
      SeqObj(<<SeqObj(<<OptObj("opt")>>), SeqObj(<<SchedObj("sched")>>)>>),
      SeqObj(<<OptObj("opt"), OptObj("opt2")>>),
      SchedObj("sched") }

ModelOf(shape, kind, hasVal) ==
    [configure |-> shape, out_kind |-> kind, has_validation_step |-> hasVal]

EpochsDom == {NONE} \cup (1..MaxEpochsCfg)
StepsDom == {NONE} \cup (1..MaxStepsCfg)
ValDom == {NONE} \cup (0..MaxValBatches)

BaseConfig ==
    [max_epochs |-> 2, max_steps |-> NONE, grad_accum_steps |-> 1,
     validation_frequency |-> 1, checkpoint_frequency |-> 1,
     strategy |-> "auto", model |-> ModelOf(OptObj("opt"), "Mapping", TRUE),
     train_loader |-> 2, val_loader |-> 1, ckpt |-> NoDir]

\* The loop arithmetic: epochs, steps, accumulation, batches, frequency.
LoopConfigs ==
    { [BaseConfig EXCEPT !.max_epochs = e, !.max_steps = s,
                         !.grad_accum_steps = a, !.train_loader = n,
                         !.validation_frequency = f] :
        e \in EpochsDom, s \in StepsDom, a \in 1..MaxAccum,
        n \in 1..MaxBatches, f \in 1..MaxFreq }

\* Validation: the batch source, the capability, and what stops an epoch.
ValConfigs ==
    { [BaseConfig EXCEPT !.val_loader = v, !.max_steps = s,
                         !.validation_frequency = f, !.grad_accum_steps = a,
                         !.model = ModelOf(c, "Mapping", h)] :
        v \in ValDom, s \in StepsDom, f \in 1..MaxFreq, a \in 1..MaxAccum,
        h \in BOOLEAN,
        c \in {OptObj("opt"), SeqObj(<<OptObj("opt"), MapObj(DefaultsCfg)>>)} }

\* The model: what it configures, what its steps return; the strategy.
ModelConfigs ==
    { [BaseConfig EXCEPT !.model = ModelOf(c, k, TRUE), !.strategy = st,
                         !.val_loader = v, !.grad_accum_steps = a,
                         !.ckpt = d] :
        c \in ConfigureShapes, k \in {"Mapping", "Tensor"},
        st \in {"auto", "fsdp"}, v \in {NONE, 1}, a \in 1..MaxAccum,
        d \in {NoDir, DirOf({SavedFile(2, 1)})} }

\* Checkpoints: what the directory holds, and the limits that end a run.
CkptConfigs ==
    { [BaseConfig EXCEPT !.ckpt = d, !.max_epochs = e, !.max_steps = s,
                         !.checkpoint_frequency = f] :
        d \in InitialCkptDirs, e \in EpochsDom, s \in StepsDom,
        f \in 1..MaxFreq }

Configs == LoopConfigs \cup ValConfigs \cup ModelConfigs \cup CkptConfigs

\* NEAT_Trainer.__init__, and the world fit is called in.
InitWith(c) ==
        /\ max_epochs = c.max_epochs
        /\ max_steps = c.max_steps
        /\ grad_accum_steps = c.grad_accum_steps
        /\ validation_frequency = c.validation_frequency
        /\ checkpoint_frequency = c.checkpoint_frequency
        /\ strategy = c.strategy
        /\ model = c.model
        /\ train_loader = c.train_loader
        /\ val_loader = c.val_loader
        /\ fs = [d \in {"ckpt", "other", "missing"} |->
                    IF d = "ckpt" THEN c.ckpt
                    ELSE IF d = "other" THEN OtherDir ELSE NoDir]
        /\ global_step = 0
        /\ current_epoch = 0
        /\ should_stop = FALSE
        /\ current_train_return = EmptyOut
        /\ current_val_return = EmptyOut
        /\ pc = "idle"
        /\ ckpt_path = "None"
        /\ optimizer = "None"
        /\ scheduler_cfg = NoCfg
        /\ batch_idx = 0
        /\ grad_enabled = TRUE
        /\ model_mode = "train"
        /\ error = "none"
        /\ fit_calls = 0
        /\ optimizer_steps = 0
        /\ aborted_steps = 0
        /\ step_base = 0
        /\ sched_steps = 0
        /\ last_monitor = NONE
        /\ fit_epochs = 0
        /\ fit_vals = 0
        /\ fit_sched = 0
        /\ fit_saves = {}
        /\ resumed = NotResumed
        /\ start_files = {}
        /\ written = WrittenBy(c.ckpt.files)
        /\ launched = FALSE
        /\ loaders_setup = FALSE
        /\ model_setup = FALSE
        /\ sched_call = NoCall
        /\ stop_requests = 0
        /\ late_train = 0
        /\ late_val = 0
        /\ loop_events = <<>>
        /\ batch_events = <<>>
        /\ val_epoch = NONE

Init == \E c \in Configs : InitWith(c)

\* ------------------------------------------------------------------ fit
\* The directory fit searches for the latest checkpoint:
\* get_latest_checkpoint(self.checkpoint_dir), whatever ckpt_path is.
ResumeDir(path) == checkpoint_dir

\* The check with > for >=: one epoch too many.
MaxEpochsReached_Late(ep) == max_epochs # NONE /\ ep > max_epochs

\* `self.max_epochs is not None and self.current_epoch >= self.max_epochs`
MaxEpochsReached(ep) == max_epochs # NONE /\ ep >= max_epochs

\* `isinstance(self.fabric.strategy, L.fabric.strategies.fsdp.FSDPStrategy)`
IsFSDP(st) == st = "fsdp"

\* fit up to its while loop: the launch, the dataloader setup, the FSDP
\* check, the normalizer, the assertion, the setup and the resumption. What it leaves behind, and the error it raises.
FitPrologue(path) ==
    LET r == parse_optimizers_schedulers(model.configure)
        latest == IF path # "None" /\ fs[path].exists
                  THEN get_latest_checkpoint(fs, ResumeDir(path))
                  ELSE NoPath
        \* fabric.launch() and fabric.setup_dataloaders(...) come first.
        same == [error |-> "none", optimizer |-> optimizer,
                 scheduler_cfg |-> scheduler_cfg, loaded |-> NoPath,
                 global_step |-> global_step, current_epoch |-> current_epoch,
                 should_stop |-> should_stop, launched |-> TRUE,
                 loaders_setup |-> TRUE, model_setup |-> FALSE]
    IN IF IsFSDP(strategy)
       THEN [same EXCEPT !.error = "NotImplementedError"]
       ELSE IF r.err # "none" THEN [same EXCEPT !.error = r.err]
       ELSE IF r.opt = "None" THEN [same EXCEPT !.error = "AssertionError"]
       ELSE IF ~latest.some
       THEN [same EXCEPT !.optimizer = r.opt, !.scheduler_cfg = r.cfg,
                         !.model_setup = TRUE]
       ELSE LET ld == load(ReadFile(fs, latest))
            IN [error |-> ld.error, optimizer |-> r.opt,
                scheduler_cfg |-> r.cfg, loaded |-> latest,
                launched |-> TRUE, loaders_setup |-> TRUE,
                model_setup |-> TRUE,
                global_step |-> ld.global_step,
                current_epoch |-> ld.current_epoch,
                should_stop |-> IF ld.error = "none"
                                   /\ MaxEpochsReached(ld.current_epoch)
                                THEN TRUE ELSE should_stop]

\* A call of fit(model, train_loader, val_loader, ckpt_path), up to the loop.
FitStart(path) ==
    /\ pc \in {"idle", "error"}
    /\ fit_calls < MaxFits
    /\ LET o == FitPrologue(path)
       IN /\ error' = o.error
          /\ pc' = IF o.error = "none" THEN "while" ELSE "error"
          /\ launched' = o.launched
          /\ loaders_setup' = o.loaders_setup
          /\ model_setup' = o.model_setup
          /\ optimizer' = o.optimizer
          /\ scheduler_cfg' = o.scheduler_cfg
          /\ global_step' = o.global_step
          /\ current_epoch' = o.current_epoch
          /\ should_stop' = o.should_stop
          /\ resumed' = IF o.loaded.some
                        THEN [path |-> o.loaded,
                              current_epoch |-> o.current_epoch,
                              global_step |-> o.global_step]
                        ELSE NotResumed
          /\ step_base' = IF o.loaded.some THEN o.global_step ELSE step_base
          /\ optimizer_steps' = IF o.loaded.some THEN 0 ELSE optimizer_steps
          /\ aborted_steps' = IF o.loaded.some THEN 0 ELSE aborted_steps
    /\ ckpt_path' = path
    /\ fit_calls' = fit_calls + 1
    /\ fit_epochs' = 0
    /\ fit_vals' = 0
    /\ fit_sched' = 0
    /\ fit_saves' = {}
    /\ start_files' = {f.name : f \in fs[checkpoint_dir].files}
    /\ late_train' = 0
    /\ late_val' = 0
    /\ UNCHANGED <<config_vars, hook_obs, val_epoch, returns, torch_vars, disk, batch_idx,
                   sched_steps, last_monitor, sched_call, stop_requests>>

\* `while not self.should_stop`: enter train_loop (on_train_epoch_start).
FitLoopEnter ==
    /\ pc = "while"
    /\ ~should_stop
    /\ current_epoch < EpochCap
    /\ pc' = "train"
    /\ batch_idx' = 0
    /\ loop_events' = <<"on_train_epoch_start">>
    /\ UNCHANGED <<config_vars, batch_events, val_epoch, backend_obs, stop_obs, returns, fit_locals, torch_vars, disk,
                   step_obs, sched_obs, fit_obs, global_step, current_epoch,
                   should_stop, error>>

\* The loop is left: `self.should_stop = False`, and fit returns.
FitReturn ==
    /\ pc = "while"
    /\ should_stop
    /\ should_stop' = FALSE
    /\ pc' = "idle"
    /\ UNCHANGED <<config_vars, hook_obs, val_epoch, backend_obs, stop_obs, returns, fit_locals, torch_vars, disk,
                   step_obs, sched_obs, fit_obs, global_step, current_epoch,
                   batch_idx, error>>

\* ----------------------------------------------------------- train_loop
\* What the model's training_step / validation_step returns for a batch.
ModelOutput(kind, v) ==
    IF kind = "Tensor" THEN TensorOut(v)
    ELSE MappingOut([k \in {LossKey} |-> v])

\* The loss the model's validation_step gives for a batch of an epoch.
ValValue(ep, idx) == 10 * (ep + 1) + idx

\* training_step: the model's forward pass, then the backward call between
\* its two hooks.
TrainingStepEvents ==
    <<"model.training_step", "on_before_backward", "fabric.backward",
      "on_after_backward">>

\* The scheduler called before on_train_batch_end.
BatchEvents_SchedulerFirst(stepped) ==
    IF stepped
    THEN <<"on_train_batch_start", "on_before_optimizer_step",
           "optimizer.step">>
         \o TrainingStepEvents
         \o <<"optimizer.step returns", "on_before_zero_grad",
              "optimizer.zero_grad", "step_scheduler", "on_train_batch_end">>
    ELSE <<"on_train_batch_start">> \o TrainingStepEvents
         \o <<"on_train_batch_end">>

\* The hooks and calls of one iteration of train_loop's for loop, in the
\* order of the code. optimizer.step runs training_step as its closure.
BatchEvents(stepped) ==
    IF stepped
    THEN <<"on_train_batch_start", "on_before_optimizer_step",
           "optimizer.step">>
         \o TrainingStepEvents
         \o <<"optimizer.step returns", "on_before_zero_grad",
              "optimizer.zero_grad", "on_train_batch_end", "step_scheduler">>
    ELSE <<"on_train_batch_start">> \o TrainingStepEvents
         \o <<"on_train_batch_end">>

\* `should_optim_step = self.global_step % self.grad_accum_steps == 0`
ShouldOptimStep(gs) == gs % grad_accum_steps = 0

\* The increment made on every batch, stepping or not.
NextGlobalStep_Always(gs, stepped) == gs + 1

\* `self.global_step += int(should_optim_step)`
NextGlobalStep(gs, stepped) == gs + (IF stepped THEN 1 ELSE 0)

\* The stopping criterion without the flag: only the two limits.
TrainStop_NoFlag(stop, idx, gs) ==
    \/ idx + 1 >= limit_batches
    \/ (max_steps # NONE /\ gs >= max_steps)

\* `self.should_stop or batch_idx + 1 >= limit_batches or
\*  self.max_steps is not None and self.global_step >= self.max_steps`
TrainStop(stop, idx, gs) ==
    \/ stop
    \/ idx + 1 >= limit_batches
    \/ (max_steps # NONE /\ gs >= max_steps)

\* One iteration of train_loop's for loop. req: a hook called within the
\* iteration (on_train_batch_start ... on_train_batch_end, training_step)
\* sets should_stop.
TrainBatchWith(req) ==
    /\ pc = "train"
    /\ batch_idx < train_loader
    /\ LET stepped == ShouldOptimStep(global_step)
           out == ModelOutput(model.out_kind, batch_idx + 1)
           sr == IF stepped
                 THEN step_scheduler(scheduler_cfg, "step", global_step, out,
                                     current_val_return)
                 ELSE SchedResult("noop", NONE)
           raised == sr.kind \in {"KeyError", "TypeError"}
           gs1 == NextGlobalStep(global_step, stepped)
           stop == TrainStop(should_stop \/ req, batch_idx, gs1)
           n == IF sr.kind = "step" THEN 1 ELSE 0
       IN /\ current_train_return' = out
          /\ optimizer_steps' = optimizer_steps + (IF stepped THEN 1 ELSE 0)
          /\ sched_steps' = sched_steps + n
          /\ fit_sched' = fit_sched + n
          /\ last_monitor' = IF sr.kind = "step" THEN sr.monitor
                             ELSE last_monitor
          /\ sched_call' = IF stepped
                           THEN CallOf(scheduler_cfg, "step", global_step, out,
                                       current_val_return)
                           ELSE sched_call
          /\ IF raised
             THEN /\ pc' = "error"
                  /\ error' = sr.kind
                  /\ aborted_steps' = aborted_steps + 1
                  /\ should_stop' = (should_stop \/ req)
                  /\ UNCHANGED <<global_step, batch_idx>>
             ELSE /\ global_step' = gs1
                  /\ should_stop' = (should_stop \/ req \/ stop)
                  /\ pc' = IF stop THEN "train_end" ELSE "train"
                  /\ batch_idx' = IF stop THEN batch_idx ELSE batch_idx + 1
                  /\ UNCHANGED <<error, aborted_steps>>
    /\ late_train' = late_train + (IF should_stop THEN 1 ELSE 0)
    /\ stop_requests' = stop_requests + (IF req THEN 1 ELSE 0)
    /\ loop_events' = Append(loop_events, "batch")
    /\ batch_events' = BatchEvents(ShouldOptimStep(global_step))
    /\ UNCHANGED <<config_vars, val_epoch, backend_obs, fit_locals, torch_vars, disk,
                   fit_obs, current_epoch, current_val_return, step_base,
                   late_val>>

\* An iteration in which no hook touches the stop flag.
TrainBatch == TrainBatchWith(FALSE)

\* The for loop is over or was left by break: on_train_epoch_end, and
\* train_loop returns to fit.
TrainLoopEnd ==
    /\ \/ pc = "train" /\ batch_idx >= train_loader
       \/ pc = "train_end"
    /\ pc' = "validate"
    /\ fit_epochs' = fit_epochs + 1
    /\ loop_events' = Append(loop_events, "on_train_epoch_end")
    /\ UNCHANGED <<config_vars, batch_events, val_epoch, backend_obs, stop_obs, returns, fit_locals, torch_vars, disk,
                   step_obs, sched_obs, global_step, current_epoch,
                   should_stop, batch_idx, error, fit_calls, fit_vals,
                   fit_saves, resumed, start_files>>

\* ------------------------------------------------------------- val_loop
\* NEAT_Trainer.should_validate
should_validate == current_epoch % validation_frequency = 0

\* val_loop runs its batch loop: it is due, a batch source was passed and
\* the model has a validation_step.
ValRuns ==
    /\ should_validate
    /\ val_loader # NONE
    /\ model.has_validation_step

\* A skipped validation that clears the retained validation output.
ValSkip_Clears ==
    /\ pc = "validate"
    /\ ~ValRuns
    /\ pc' = "sched"
    /\ current_val_return' = EmptyOut
    /\ UNCHANGED <<config_vars, hook_obs, val_epoch, backend_obs, stop_obs, current_train_return, fit_locals, torch_vars, disk,
                   step_obs, sched_obs, fit_obs, global_step, current_epoch,
                   should_stop, batch_idx, error>>

\* Validation is not due, or val_loop returns before anything is switched.
ValSkip ==
    /\ pc = "validate"
    /\ ~ValRuns
    /\ pc' = "sched"
    /\ UNCHANGED <<config_vars, hook_obs, val_epoch, backend_obs, stop_obs, returns, fit_locals, torch_vars, disk,
                   step_obs, sched_obs, fit_obs, global_step, current_epoch,
                   should_stop, batch_idx, error>>

\* on_validation_model_eval, torch.set_grad_enabled(False),
\* on_validation_epoch_start.
ValLoopStart ==
    /\ pc = "validate"
    /\ ValRuns
    /\ model_mode' = "eval"
    /\ grad_enabled' = FALSE
    /\ batch_idx' = 0
    /\ fit_vals' = fit_vals + 1
    /\ pc' = "val"
    /\ UNCHANGED <<config_vars, hook_obs, val_epoch, backend_obs, stop_obs, returns, fit_locals, disk, step_obs,
                   sched_obs, global_step, current_epoch, should_stop, error,
                   fit_calls, fit_epochs, fit_saves, resumed, start_files>>

\* `if self.should_stop or batch_idx >= limit_batches`
ValStop(stop, idx) == stop \/ idx >= limit_batches

\* The early return inside val_loop's for loop: on_validation_epoch_end,
\* then `return`. Neither the mode nor the gradient switch is touched.
ValEarlyReturn ==
    /\ pc = "val"
    /\ batch_idx < val_loader
    /\ ValStop(should_stop, batch_idx)
    /\ pc' = "sched"
    /\ UNCHANGED <<config_vars, hook_obs, val_epoch, backend_obs, stop_obs, returns, fit_locals, torch_vars, disk, step_obs,
                   sched_obs, fit_obs, global_step, current_epoch,
                   should_stop, batch_idx, error>>

\* One validation batch: validation_step, and its output is retained.
\* req: a hook called within the iteration (on_validation_batch_start,
\* validation_step, on_validation_batch_end) sets should_stop.
ValBatchWith(req) ==
    /\ pc = "val"
    /\ batch_idx < val_loader
    /\ ~ValStop(should_stop, batch_idx)
    /\ current_val_return' =
          ModelOutput(model.out_kind, ValValue(current_epoch, batch_idx))
    /\ batch_idx' = batch_idx + 1
    /\ should_stop' = (should_stop \/ req)
    /\ late_val' = late_val + (IF should_stop THEN 1 ELSE 0)
    /\ stop_requests' = stop_requests + (IF req THEN 1 ELSE 0)
    /\ val_epoch' = current_epoch
    /\ loop_events' = Append(loop_events, "val_batch")
    /\ UNCHANGED <<config_vars, batch_events, backend_obs, fit_locals, torch_vars, disk,
                   step_obs, sched_obs, fit_obs, global_step, current_epoch,
                   current_train_return, pc, error, late_train>>

\* A validation batch in which no hook touches the stop flag.
ValBatch == ValBatchWith(FALSE)

\* The batch source is exhausted: on_validation_epoch_end,
\* on_validation_model_train, torch.set_grad_enabled(True).
ValLoopEnd ==
    /\ pc = "val"
    /\ batch_idx >= val_loader
    /\ model_mode' = "train"
    /\ grad_enabled' = TRUE
    /\ pc' = "sched"
    /\ UNCHANGED <<config_vars, hook_obs, val_epoch, backend_obs, stop_obs, returns, fit_locals, disk, step_obs,
                   sched_obs, fit_obs, global_step, current_epoch,
                   should_stop, batch_idx, error>>

\* ------------------------------------------------------ the epoch's end
\* save called before the increment of current_epoch.
save_BeforeIncrement(filesys, gs, ep) ==
    FabricSave(filesys, checkpoint_dir, CkptName(ep - 1),
               SaveRecord(gs, ep - 1))

\* NEAT_Trainer.save: the file it writes.
save(filesys, gs, ep) ==
    FabricSave(filesys, checkpoint_dir, CkptName(ep), SaveRecord(gs, ep))

\* The counters a save call was made with, kept by file name.
NoteWritten(w, gs, ep) ==
    Update(w, [n \in {CkptName(ep)} |->
                  [current_epoch |-> ep, global_step |-> gs]])

\* The rest of the loop body: the epoch-level step_scheduler, the
\* increment of current_epoch, the max_epochs check and save.
EpochEnd ==
    /\ pc = "sched"
    /\ LET sr == step_scheduler(scheduler_cfg, "epoch", current_epoch,
                                current_train_return, current_val_return)
           raised == sr.kind \in {"KeyError", "TypeError"}
           ep1 == current_epoch + 1
           n == IF sr.kind = "step" THEN 1 ELSE 0
       IN /\ sched_steps' = sched_steps + n
          /\ fit_sched' = fit_sched + n
          /\ last_monitor' = IF sr.kind = "step" THEN sr.monitor
                             ELSE last_monitor
          /\ sched_call' = CallOf(scheduler_cfg, "epoch", current_epoch,
                                  current_train_return, current_val_return)
          /\ IF raised
             THEN /\ pc' = "error"
                  /\ error' = sr.kind
                  /\ UNCHANGED <<current_epoch, should_stop, disk, fit_saves>>
             ELSE /\ current_epoch' = ep1
                  /\ should_stop' = (should_stop \/ MaxEpochsReached(ep1))
                  /\ fs' = save(fs, global_step, ep1)
                  /\ written' = NoteWritten(written, global_step, ep1)
                  /\ fit_saves' = fit_saves \cup {CkptName(ep1)}
                  /\ pc' = "while"
                  /\ UNCHANGED error
    /\ UNCHANGED <<config_vars, hook_obs, val_epoch, backend_obs, stop_obs, returns, fit_locals, torch_vars, step_obs,
                   global_step, batch_idx, fit_calls, fit_epochs, fit_vals,
                   resumed, start_files>>

\* ------------------------------------------------------ specification
Next ==
    \/ \E path \in {"None", "ckpt", "other", "missing"} : FitStart(path)
    \/ FitLoopEnter
    \/ FitReturn
    \/ TrainBatch
    \/ TrainLoopEnd
    \/ ValSkip
    \/ ValLoopStart
    \/ ValEarlyReturn
    \/ ValBatch
    \/ ValLoopEnd
    \/ EpochEnd

Spec == Init /\ [][Next]_vars

\* ------------------------------------------- the stop flag set by a hook
\* should_stop is a public attribute: a callback or a hook of the model,
\* called by fabric.call(...) at fixed points of the loops, may set it.
\* Between batches the hooks are on_train_epoch_start (before the first
\* training batch), on_train_epoch_end, on_validation_model_eval and
\* on_validation_epoch_start (before the first validation batch), and
\* on_validation_epoch_end / on_validation_model_train.
AtHook ==
    \/ pc = "train" /\ batch_idx = 0
    \/ pc = "train" /\ batch_idx >= train_loader
    \/ pc = "train_end"
    \/ pc = "val" /\ batch_idx = 0
    \/ pc = "val" /\ batch_idx >= val_loader

\* A hook between batches sets the flag.
RequestStop ==
    /\ AtHook
    /\ ~should_stop
    /\ should_stop' = TRUE
    /\ stop_requests' = stop_requests + 1
    /\ UNCHANGED <<config_vars, hook_obs, val_epoch, backend_obs, returns, fit_locals, torch_vars,
                   disk, step_obs, sched_obs, fit_obs, global_step,
                   current_epoch, pc, batch_idx, error, late_train, late_val>>

\* A hook within a training / validation batch sets the flag.
TrainBatchStopRequested == ~should_stop /\ TrainBatchWith(TRUE)
ValBatchStopRequested == ~should_stop /\ ValBatchWith(TRUE)

\* The Trainers the stop flag is exercised on: with and without limits of
\* their own, with and without validation batches, and with a scheduler
\* whose epoch-level step raises when no validation output was retained.
StopConfigs ==
    { [BaseConfig EXCEPT !.max_epochs = e, !.max_steps = s,
                         !.train_loader = n, !.val_loader = v,
                         !.model = ModelOf(c, "Mapping", TRUE)] :
        e \in {NONE, 2}, s \in StepsDom, n \in 1..MaxBatches, v \in ValDom,
        c \in {OptObj("opt"), SeqObj(<<OptObj("opt"), MapObj(DefaultsCfg)>>)} }

InitStop == \E c \in StopConfigs : InitWith(c)

\* The steps fit takes by itself once it was called.
LoopStep ==
    \/ FitLoopEnter
    \/ FitReturn
    \/ TrainBatch
    \/ TrainLoopEnd
    \/ ValSkip
    \/ ValLoopStart
    \/ ValEarlyReturn
    \/ ValBatch
    \/ ValLoopEnd
    \/ EpochEnd

NextStop ==
    \/ \E path \in {"None", "ckpt"} : FitStart(path)
    \/ LoopStep
    \/ RequestStop
    \/ TrainBatchStopRequested
    \/ ValBatchStopRequested

\* The loop is synchronous and single-threaded: a fit call that can take a
\* step takes it.
SpecStop == InitStop /\ [][NextStop]_vars /\ WF_vars(LoopStep)

\* ------------------------------------------- fit calls left to run
\* The Trainers of LoopConfigs, fit being called on them and then left to
\* itself: no hook touches the stop flag.
InitTerm == \E c \in LoopConfigs : InitWith(c)

NextTerm ==
    \/ \E path \in {"None", "ckpt"} : FitStart(path)
    \/ LoopStep

\* The loop is synchronous and single-threaded: a fit call that can take a
\* step takes it.
SpecTerm == InitTerm /\ [][NextTerm]_vars /\ WF_vars(LoopStep)

\* ------------------------------------------------ step_scheduler alone
\* The monitors a scheduler config names.
Monitors ==
    {TrainLoss, ValLoss, NoneKey, <<"train_", "acc">>, <<"val_", "acc">>}

\* The scheduler configs the normalizer produces from a mapping that holds a
\* scheduler: the defaults, overridden by what the mapping gives.
SchedCfgs ==
    {NoCfg} \cup
    { SomeCfg(Update(lr_sched_defaults,
                     [scheduler |-> "sched", interval |-> i, frequency |-> f,
                      monitor |-> mon])) :
        i \in {"step", "epoch"}, f \in 1..MaxFreq, mon \in Monitors }

\* What a training_step / validation_step may have left behind.
RetainedOutputs ==
    { EmptyOut, TensorOut(7),
      MappingOut([k \in {LossKey} |-> 5]),
      MappingOut([k \in {LossKey, <<"acc">>} |-> IF k = LossKey THEN 5 ELSE 9]) }

InitSched == InitWith(BaseConfig)

\* The Trainer as a step_scheduler call finds it.
SchedInputs(cfg, train_ret, val_ret) ==
    /\ pc = "idle"
    /\ scheduler_cfg' = cfg
    /\ current_train_return' = train_ret
    /\ current_val_return' = val_ret
    /\ pc' = "sched_in"
    /\ UNCHANGED <<config_vars, hook_obs, val_epoch, backend_obs, stop_obs, torch_vars, disk,
                   step_obs, sched_obs, fit_obs, global_step, current_epoch,
                   should_stop, batch_idx, error, ckpt_path, optimizer>>

\* step_scheduler(model, scheduler_cfg, level, current_value)
SchedCall(level, current_value) ==
    /\ pc = "sched_in"
    /\ LET sr == step_scheduler(scheduler_cfg, level, current_value,
                                current_train_return, current_val_return)
           n == IF sr.kind = "step" THEN 1 ELSE 0
       IN /\ sched_steps' = sched_steps + n
          /\ fit_sched' = fit_sched + n
          /\ last_monitor' = IF sr.kind = "step" THEN sr.monitor
                             ELSE last_monitor
          /\ error' = IF sr.kind \in {"KeyError", "TypeError"} THEN sr.kind
                      ELSE error
    /\ sched_call' = CallOf(scheduler_cfg, level, current_value,
                            current_train_return, current_val_return)
    /\ pc' = "sched_out"
    /\ UNCHANGED <<config_vars, hook_obs, val_epoch, backend_obs, stop_obs, returns, fit_locals,
                   torch_vars, disk, step_obs, fit_obs, global_step,
                   current_epoch, should_stop, batch_idx>>

NextSched ==
    \/ \E cfg \in SchedCfgs, tr \in RetainedOutputs, vr \in RetainedOutputs :
          SchedInputs(cfg, tr, vr)
    \/ \E level \in {"step", "epoch"}, v \in 0..MaxCurrentValue :
          SchedCall(level, v)

SpecSched == InitSched /\ [][NextSched]_vars

\* ------------------------------------ _parse_optimizers_schedulers alone
\* What a list or tuple returned by configure_optimizers holds: optimizers,
\* schedulers, scheduler configs, other objects, and one-element lists.
ShapeElems ==
    { OptObj("opt"), OptObj("opt2"), SchedObj("sched"), MapObj(DefaultsCfg),
      MapObj(StepTrainLossCfg), OtherObj,
      SeqObj(<<OptObj("opt")>>), SeqObj(<<SchedObj("sched")>>) }

\* The shapes configure_optimizers returns here.
Shapes ==
    ShapeElems \cup
    { SeqObj(items) : items \in UNION {[1..n -> ShapeElems] : n \in 0..MaxSeqLen} }

InitParse == InitWith(BaseConfig)

\* A model whose configure_optimizers returns the shape.
ParseInput(shape) ==
    /\ pc = "idle"
    /\ model' = ModelOf(shape, "Mapping", TRUE)
    /\ pc' = "parse_in"
    /\ UNCHANGED <<hook_obs, val_epoch, max_epochs, max_steps, grad_accum_steps,
                   validation_frequency, checkpoint_frequency, strategy,
                   train_loader, val_loader, backend_obs, stop_obs, returns,
                   fit_locals, torch_vars, disk, step_obs, sched_obs, fit_obs,
                   global_step, current_epoch, should_stop, batch_idx, error>>

\* optimizer, scheduler_cfg =
\*     self._parse_optimizers_schedulers(model.configure_optimizers())
ParseCall ==
    /\ pc = "parse_in"
    /\ LET r == parse_optimizers_schedulers(model.configure)
       IN /\ optimizer' = r.opt
          /\ scheduler_cfg' = r.cfg
          /\ error' = r.err
    /\ pc' = "parse_out"
    /\ UNCHANGED <<config_vars, hook_obs, val_epoch, backend_obs, stop_obs, returns, ckpt_path,
                   torch_vars, disk, step_obs, sched_obs, fit_obs,
                   global_step, current_epoch, should_stop, batch_idx>>

NextParse ==
    \/ \E shape \in Shapes : ParseInput(shape)
    \/ ParseCall

SpecParse == InitParse /\ [][NextParse]_vars

\* ------------------------------------- save and get_latest_checkpoint
\* The epochs at which save is called here: around every change of the
\* number of digits of the epoch number.
SaveEpochs == {1, 2, 9, 10, 999, 1000, 9999, 10000, 10001}

\* A Trainer with no max_epochs, over an absent or an empty checkpoint_dir.
InitLatest ==
    \E d \in {NoDir, EmptyDir} :
        InitWith([BaseConfig EXCEPT !.max_epochs = NONE, !.ckpt = d])

\* save(state), called when the Trainer's current_epoch is e.
SaveAt(e) ==
    /\ pc = "idle"
    /\ Cardinality(fs[checkpoint_dir].files) < MaxFiles
    /\ current_epoch' = e
    /\ global_step' = e * train_loader
    /\ fs' = save(fs, global_step', e)
    /\ written' = NoteWritten(written, global_step', e)
    /\ UNCHANGED <<config_vars, hook_obs, val_epoch, backend_obs, stop_obs, returns, fit_locals, torch_vars, step_obs,
                   sched_obs, fit_obs, should_stop, pc, batch_idx, error>>

\* get_latest_checkpoint(self.checkpoint_dir), its result kept in resumed.
Latest ==
    /\ pc = "idle"
    /\ resumed' = [NotResumed EXCEPT
                      !.path = get_latest_checkpoint(fs, checkpoint_dir)]
    /\ pc' = "latest"
    /\ UNCHANGED <<config_vars, hook_obs, val_epoch, backend_obs, stop_obs, returns, fit_locals, torch_vars, disk,
                   step_obs, sched_obs, global_step, current_epoch,
                   should_stop, batch_idx, error, fit_calls, fit_epochs,
                   fit_vals, fit_saves, start_files>>

NextLatest ==
    \/ \E e \in SaveEpochs : SaveAt(e)
    \/ Latest

SpecLatest == InitLatest /\ [][NextLatest]_vars

\* ---------------------------------------------------------------- claims
\* The first train_loop of the first fit call, nothing restored, has just
\* returned: train_loop has run on a fresh Trainer over the whole source.
FirstTrainLoopDone ==
    /\ fit_calls = 1
    /\ ~resumed.path.some
    /\ pc = "validate"
    /\ fit_epochs = 1
    /\ current_epoch = 0

\* C1: on a fresh Trainer with no max_steps, train_loop over N batches with
\* accumulation factor A steps the optimizer floor(N/A) times and raises
\* global_step by that number.
C1_FloorSteps ==
    (FirstTrainLoopDone /\ max_steps = NONE)
        => /\ optimizer_steps = train_loader \div grad_accum_steps
           /\ global_step = train_loader \div grad_accum_steps

\* The first fit call of a Trainer returned, having restored nothing.
FreshFitReturned ==
    /\ pc = "idle"
    /\ fit_calls = 1
    /\ error = "none"
    /\ ~resumed.path.some

\* The names of the files checkpoint_dir holds.
CkptFileNames == {f.name : f \in fs[checkpoint_dir].files}

\* C2: a fresh Trainer with max_epochs = E, validation_frequency = 1, A = 1
\* and no max_steps, over N batches: after fit, current_epoch = E,
\* global_step = E * N, and fit has written E distinct checkpoint files, which
\* are the files of a checkpoint directory that held none before.
C2_EndToEnd ==
    (/\ FreshFitReturned
     /\ max_epochs # NONE
     /\ validation_frequency = 1
     /\ grad_accum_steps = 1
     /\ max_steps = NONE)
        => /\ current_epoch = max_epochs
           /\ global_step = max_epochs * train_loader
           /\ Cardinality(fit_saves) = max_epochs
           /\ fit_saves = {CkptName(e) : e \in 1..max_epochs}
           /\ CkptFileNames = start_files \cup fit_saves
           /\ start_files = {} => Cardinality(fs[checkpoint_dir].files) = max_epochs

\* The spec's case: E = 3, N = 5 ends with 3, 15 and three files.
C2_Witness ==
    /\ FreshFitReturned
    /\ validation_frequency = 1
    /\ grad_accum_steps = 1
    /\ max_steps = NONE
    /\ max_epochs = 3
    /\ train_loader = 5
    /\ current_epoch = 3
    /\ global_step = 15
    /\ Cardinality(fs[checkpoint_dir].files) = 3

\* C3 as stated: at every point global_step is the number of optimizer steps
\* completed since the counters were initialised or restored.
C3_StepsEqualCounter == global_step = step_base + optimizer_steps

\* C3 amended: global_step counts the optimizer steps of the batches that ran
\* to their end. A stepping batch whose step-level scheduler call raises has
\* stepped the optimizer and leaves global_step as it was; and inside fit's
\* loop global_step never decreases and moves by at most one per batch.
C3_StepsOfCompletedBatches ==
    /\ [](global_step = step_base + optimizer_steps - aborted_steps)
    /\ [][pc \notin {"idle", "error"}
            => /\ global_step' \in {global_step, global_step + 1}
               /\ (global_step' = global_step + 1
                     <=> /\ optimizer_steps' = optimizer_steps + 1
                         /\ aborted_steps' = aborted_steps)]_vars

\* A stepping batch was cut short by the scheduler call: the optimizer has
\* stepped once more than global_step says.
C3_Witness ==
    /\ pc = "error"
    /\ aborted_steps = 1
    /\ optimizer_steps = 1
    /\ global_step = step_base

\* No checkpoint written so far records more steps than max_steps allows.
CheckpointsWithinMaxSteps ==
    \A n \in DOMAIN written : written[n].global_step <= max_steps

\* C4: with max_steps configured, global_step never exceeds it: on a fresh
\* start, after a resumption and in a repeated fit call (stated for the runs
\* whose checkpoints are themselves within max_steps).
C4_NeverAboveMaxSteps ==
    (max_steps # NONE /\ CheckpointsWithinMaxSteps)
        => global_step <= max_steps

\* fit has just passed its resumption step and entered the loop.
FitJustStarted ==
    /\ pc = "while"
    /\ fit_epochs = 0
    /\ fit_saves = {}
    /\ error = "none"

\* C5: a fit call given an existing directory that holds checkpoints loads
\* the latest checkpoint of that directory.
C5_LoadsFromCkptPath ==
    (/\ FitJustStarted
     /\ ckpt_path # "None"
     /\ fs[ckpt_path].exists
     /\ fs[ckpt_path].files # {})
        => resumed.path = get_latest_checkpoint(fs, ckpt_path)

\* The fit call in progress or last made restored a checkpoint whose epoch
\* already meets max_epochs, and load raised nothing.
RestoredAtMaxEpochs ==
    /\ resumed.path.some
    /\ error = "none"
    /\ max_epochs # NONE
    /\ resumed.current_epoch >= max_epochs

\* C6: a fit call that restores current_epoch >= max_epochs goes straight to
\* its end: no training epoch, no validation pass, no scheduler step, no
\* checkpoint written, and the counters stay the restored ones.
C6_RestoredDoneSkipsLoop ==
    RestoredAtMaxEpochs
        => /\ pc \in {"while", "idle"}
           /\ pc = "while" => should_stop
           /\ fit_epochs = 0
           /\ fit_vals = 0
           /\ fit_sched = 0
           /\ fit_saves = {}
           /\ CkptFileNames = start_files
           /\ current_epoch = resumed.current_epoch
           /\ global_step = resumed.global_step

\* Such a fit call has returned.
C6_Witness == RestoredAtMaxEpochs /\ pc = "idle" /\ ~should_stop

\* The record of a file holds nothing but the state's components and the
\* two counters.
CleanRecord(rec) == DOMAIN rec = StateKeys \cup CounterKeys

\* C7: a checkpoint written by save at counters (e, g) and loaded gives
\* current_epoch = e and global_step = g: for every file save has written,
\* and for the Trainer a fit call has just restored.
C7_RoundTrip ==
    /\ \A f \in fs[checkpoint_dir].files :
          CleanRecord(f.rec)
             => /\ load(f.rec).error = "none"
                /\ load(f.rec).current_epoch = written[f.name].current_epoch
                /\ load(f.rec).global_step = written[f.name].global_step
    /\ (FitJustStarted /\ resumed.path.some)
          => /\ current_epoch = written[resumed.path.name].current_epoch
             /\ global_step = written[resumed.path.name].global_step

\* A second fit call has restored the checkpoint the first one wrote last,
\* after two epochs of five batches.
C7_Witness ==
    /\ FitJustStarted
    /\ resumed.path.some
    /\ fit_calls = 2
    /\ resumed.path.name = CkptName(2)
    /\ current_epoch = 2
    /\ global_step = 10

\* C8: load raises the integrity error exactly when the record holds a key
\* besides the components and the two counters; the error leaves fit, and no
\* training epoch of that call runs.
C8_IntegrityError ==
    resumed.path.some
        => LET rec == ReadFile(fs, resumed.path)
           IN /\ ~CleanRecord(rec)
                    => /\ error = "RuntimeError"
                       /\ pc = "error"
                       /\ fit_epochs = 0
                       /\ fit_saves = {}
              /\ CleanRecord(rec) => error # "RuntimeError"

\* A fit call ended in the integrity error.
C8_Witness ==
    /\ resumed.path.some
    /\ ~CleanRecord(ReadFile(fs, resumed.path))
    /\ pc = "error"
    /\ error = "RuntimeError"

\* C10: outside val_loop's batch loop gradient tracking is enabled and the
\* model is in train mode: every return of val_loop has undone the switch.
C10_SwitchUndone == pc # "val" => (grad_enabled /\ model_mode = "train")

\* C11 as stated: once should_stop is set, no training batch and no
\* validation batch is started any more in that fit call.
C11_NoBatchAfterStop == late_train = 0 /\ late_val = 0

\* C11 amended: train_loop tests the flag after each batch, val_loop before
\* each batch, fit before each epoch. Once the flag is set, at most one
\* training batch is still started (the first of an epoch, when the flag was
\* set by on_train_epoch_start), no validation batch is started, and the fit
\* call ends.
C11_StopWithinOneBatch ==
    /\ [](late_train <= 1 /\ late_val = 0)
    /\ [][late_train' = late_train + 1 => batch_idx = 0]_vars
    /\ ((should_stop /\ pc \notin {"idle", "error"})
           ~> pc \in {"idle", "error"})

\* A fit call returned after on_train_epoch_start set the flag: one batch
\* was started with the flag set, and none after it.
C11_Witness ==
    /\ pc = "idle"
    /\ stop_requests = 1
    /\ late_train = 1
    /\ fit_epochs = 1
    /\ max_epochs = NONE
    /\ max_steps = NONE
    /\ train_loader > 1

\* C12: whenever a fit call has finished, by returning or by raising,
\* should_stop is false again.
C12_FlagClearAfterFit ==
    (fit_calls >= 1 /\ pc \in {"idle", "error"}) => ~should_stop

\* A step_scheduler call has been made on its own; c is the call.
SchedReturned == pc = "sched_out" /\ sched_call.made

\* The call was due: a config, for this level, at a multiple of frequency.
SchedDue ==
    /\ sched_call.cfg.present
    /\ sched_call.cfg.m.interval = sched_call.level
    /\ sched_call.value % sched_call.cfg.m.frequency = 0

\* The keys the monitor is looked up among, for two mapping outputs.
MonitorKeys ==
    {NoneKey}
      \cup {<<"train_">> \o k : k \in DOMAIN sched_call.train.items}
      \cup {<<"val_">> \o k : k \in DOMAIN sched_call.val.items}

\* The value a monitor among MonitorKeys stands for.
MonitorValue(mon) ==
    IF mon = NoneKey THEN NONE
    ELSE IF Head(mon) = "val_" THEN sched_call.val.items[Tail(mon)]
    ELSE sched_call.train.items[Tail(mon)]

\* Both retained outputs are mappings (the empty one included).
MappingOutputs ==
    sched_call.train.kind = "Mapping" /\ sched_call.val.kind = "Mapping"

\* C13 as stated: a call that is not due does not advance the schedule, and
\* a call that is due advances it exactly once.
C13_DueStepsOnce ==
    SchedReturned => sched_steps = (IF SchedDue THEN 1 ELSE 0)

\* C13 amended: a call that is not due does nothing; a call that is due
\* advances the schedule exactly once when the monitor resolves, and raises
\* without advancing it otherwise (KeyError for a monitor not among the keys
\* of two mapping outputs, TypeError when a retained output is a bare
\* tensor).
C13_DueStepsOnceIfResolved ==
    SchedReturned
        => IF ~SchedDue THEN sched_steps = 0 /\ error = "none"
           ELSE IF ~MappingOutputs THEN sched_steps = 0 /\ error = "TypeError"
           ELSE IF sched_call.cfg.m.monitor \in MonitorKeys
           THEN sched_steps = 1 /\ error = "none"
           ELSE sched_steps = 0 /\ error = "KeyError"

\* A due call at a non-zero multiple of the frequency advanced the schedule.
C13_Witness ==
    /\ SchedReturned
    /\ SchedDue
    /\ sched_call.cfg.m.frequency = 2
    /\ sched_call.value = 2
    /\ sched_steps = 1

\* C14: for mapping outputs, a due call looks the monitor up among
\* 'train_'+k, 'val_'+k and none; found, the schedule is advanced with the
\* value; not found, the call raises KeyError and the schedule stays. With
\* training output {loss: v} and no validation output, 'train_loss' gives v
\* and 'val_loss' raises.
C14_MonitorLookup ==
    (SchedReturned /\ SchedDue /\ MappingOutputs)
        => LET mon == sched_call.cfg.m.monitor
           IN /\ IF mon \in MonitorKeys
                 THEN /\ error = "none"
                      /\ sched_steps = 1
                      /\ last_monitor = MonitorValue(mon)
                 ELSE /\ error = "KeyError"
                      /\ sched_steps = 0
              /\ (/\ DOMAIN sched_call.train.items = {LossKey}
                  /\ sched_call.val = EmptyOut)
                    => /\ mon = TrainLoss
                            => last_monitor = sched_call.train.items[LossKey]
                       /\ mon = ValLoss => error = "KeyError"

\* Training output {loss: 5}, no validation output, monitor 'val_loss': the
\* due call raised.
C14_Witness ==
    /\ SchedReturned
    /\ SchedDue
    /\ sched_call.train = MappingOut([k \in {LossKey} |-> 5])
    /\ sched_call.val = EmptyOut
    /\ sched_call.cfg.m.monitor = ValLoss
    /\ error = "KeyError"
    /\ sched_steps = 0

\* C15: with a bare scalar as the last training output, a due call whose
\* monitor is 'train_loss' advances the schedule with that scalar (and
\* likewise 'val_loss' with a bare scalar validation output).
C15_BareScalarMonitor ==
    (SchedReturned /\ SchedDue)
        => /\ (/\ sched_call.train.kind = "Tensor"
               /\ sched_call.cfg.m.monitor = TrainLoss)
                 => /\ sched_steps = 1
                    /\ last_monitor = sched_call.train.v
           /\ (/\ sched_call.val.kind = "Tensor"
               /\ sched_call.cfg.m.monitor = ValLoss)
                 => /\ sched_steps = 1
                    /\ last_monitor = sched_call.val.v

\* The normalizer has returned or raised; the shape it was given.
ParseReturned == pc = "parse_out"
ParsedShape == model.configure

\* The default config with a scheduler: {scheduler: s, interval: 'epoch',
\* frequency: 1, monitor: 'val_loss'}.
DefaultConfigWith(id) ==
    SomeCfg([scheduler |-> id, interval |-> "epoch", frequency |-> 1,
             monitor |-> ValLoss])

\* C16: a single scheduler object s normalizes to (none, the default config
\* with s), and that config is the scheduler component of (optimizer, s).
C16_SingleScheduler ==
    ParseReturned
        => /\ ParsedShape.t = "LRScheduler"
                => /\ error = "none"
                   /\ optimizer = "None"
                   /\ scheduler_cfg = DefaultConfigWith(ParsedShape.id)
           /\ (/\ ParsedShape.t = "Sequence"
               /\ Len(ParsedShape.items) = 2
               /\ ParsedShape.items[1].t = "Optimizable"
               /\ ParsedShape.items[2].t = "LRScheduler")
                => /\ error = "none"
                   /\ optimizer = ParsedShape.items[1].id
                   /\ scheduler_cfg = DefaultConfigWith(ParsedShape.items[2].id)

\* C17: a sequence of optimizers normalizes to (its element, none) when it
\* has one element and raises the configuration error when it has more; and
\* ([optimizer], [scheduler]) normalizes to the optimizer with the default
\* config of the scheduler.
C17_OptimizerList ==
    (ParseReturned /\ ParsedShape.t = "Sequence")
        => /\ (/\ Len(ParsedShape.items) >= 1
               /\ \A i \in 1..Len(ParsedShape.items) :
                     ParsedShape.items[i].t = "Optimizable")
                => IF Len(ParsedShape.items) = 1
                   THEN /\ error = "none"
                        /\ optimizer = ParsedShape.items[1].id
                        /\ scheduler_cfg = NoCfg
                   ELSE error = "NotImplementedError"
           /\ ParsedShape = SeqObj(<<SeqObj(<<OptObj("opt")>>),
                                     SeqObj(<<SchedObj("sched")>>)>>)
                => /\ error = "none"
                   /\ optimizer = "opt"
                   /\ scheduler_cfg = DefaultConfigWith("sched")

\* A fit call has been made on a Trainer whose strategy is fully sharded.
FsdpFitCalled == strategy = "fsdp" /\ fit_calls >= 1

\* What such a call leaves untouched: no model and
\* optimizer setup, no checkpoint loaded, no training, counters and flag as
\* they were.
FsdpNothingTrained ==
    /\ pc = "error"
    /\ error = "NotImplementedError"
    /\ ~model_setup
    /\ optimizer = "None"
    /\ ~resumed.path.some
    /\ fit_epochs = 0
    /\ optimizer_steps = 0
    /\ global_step = 0
    /\ current_epoch = 0
    /\ ~should_stop

\* C18: on a fully sharded strategy fit raises the error before anything is
\* set up, the backend launch and the dataloader setup included.
C18_FsdpNoSetupAtAll ==
    FsdpFitCalled => (FsdpNothingTrained /\ ~launched /\ ~loaders_setup)

\* C19: with checkpoint_frequency = F a fit call writes a checkpoint at the
\* end of every F-th epoch only: after a fresh fit the files written are those
\* of the epochs that are multiples of F.
C19_CheckpointCadence ==
    FreshFitReturned
        => fit_saves =
              {CkptName(e) : e \in {k \in 1..current_epoch :
                                       k % checkpoint_frequency = 0}}

\* The training epochs of the fit call in progress are the Trainer's first:
\* nothing was restored and no earlier call trained.
FreshFitRunning ==
    /\ fit_calls = 1
    /\ ~resumed.path.some
    /\ fit_epochs = current_epoch + 1

\* C20: with validation_frequency = F, F training epochs run before each
\* validation pass: in a fresh fit a validation pass starts only after a
\* multiple of F training epochs, and it is the (epochs / F)-th pass.
C20_ValidationEveryF ==
    (FreshFitRunning /\ pc = "val")
        => /\ fit_epochs % validation_frequency = 0
           /\ fit_vals = fit_epochs \div validation_frequency

\* The steps of one iteration of fit's loop, in order: the train_loop has
\* returned before validation is decided, validation runs exactly when it
\* is due and possible, and the rest of the iteration follows it.
IterationOrder ==
    /\ (pc' = "validate" /\ pc # "validate")
          => /\ pc \in {"train", "train_end"}
             /\ loop_events'[Len(loop_events')] = "on_train_epoch_end"
    /\ pc = "validate" => (pc' = "val" <=> ValRuns)
    /\ (pc' = "val" /\ pc # "val") => (pc = "validate" /\ should_validate)
    /\ (pc' = "sched" /\ pc # "sched") => pc \in {"validate", "val"}

\* The rest of an iteration: the epoch-level scheduler call with the epoch
\* not yet incremented, then the increment, the max_epochs check on the
\* incremented epoch, and the checkpoint of the incremented epoch with the
\* counters as they stand. A scheduler error ends it before the increment.
IterationEnd ==
    pc = "sched"
        => /\ sched_call'.made
           /\ sched_call'.level = "epoch"
           /\ sched_call'.value = current_epoch
           /\ IF pc' = "error"
              THEN current_epoch' = current_epoch /\ fs' = fs
              ELSE /\ pc' = "while"
                   /\ current_epoch' = current_epoch + 1
                   /\ should_stop' =
                         (should_stop \/ (/\ max_epochs # NONE
                                          /\ current_epoch' >= max_epochs))
                   /\ \E f \in fs'[checkpoint_dir].files :
                         /\ f.name = CkptName(current_epoch')
                         /\ f.rec["current_epoch"] = current_epoch'
                         /\ f.rec["global_step"] = global_step
                   /\ \A f \in fs'[checkpoint_dir].files :
                         f.name # CkptName(current_epoch')
                            => f \in fs[checkpoint_dir].files

\* C21: in every iteration of fit's loop the training epoch comes first,
\* then the validation pass if due, then the epoch-level scheduler step, the
\* increment of current_epoch, the max_epochs check and the save; nothing
\* else writes a checkpoint or moves current_epoch during a fit call, and a
\* checkpoint records the counters as they stand after the increment.
C21_EpochOrder ==
    [][/\ IterationOrder
       /\ IterationEnd
       /\ pc # "sched" => fs' = fs
       /\ (pc \notin {"sched", "idle", "error"})
             => current_epoch' = current_epoch]_vars

\* The second iteration of a fit call is over: two training epochs, two
\* validation passes, two checkpoints, the scheduler called for epoch 1.
C21_Witness ==
    /\ pc = "while"
    /\ fit_calls = 1
    /\ fit_epochs = 2
    /\ fit_vals = 2
    /\ fit_saves = {CkptName(1), CkptName(2)}
    /\ sched_call.level = "epoch"
    /\ sched_call.value = 1
    /\ current_epoch = 2

\* How often an event occurs in a sequence of events, and where first.
CountOf(events, ev) == Cardinality({i \in 1..Len(events) : events[i] = ev})
PosOf(events, ev) == CHOOSE i \in 1..Len(events) : events[i] = ev

\* One event precedes another in the events of the last batch, each of the
\* two occurring exactly once.
Precedes(a, b) ==
    /\ CountOf(batch_events, a) = 1
    /\ CountOf(batch_events, b) = 1
    /\ PosOf(batch_events, a) < PosOf(batch_events, b)

\* The last batch was a stepping one.
SteppingBatch == CountOf(batch_events, "optimizer.step") = 1

\* The train_loop invocation in progress: on_train_epoch_start has fired
\* once, first, only batches followed, and on_train_epoch_end has not fired.
LoopRunningHooks ==
    /\ Len(loop_events) >= 1
    /\ loop_events[1] = "on_train_epoch_start"
    /\ \A i \in 2..Len(loop_events) : loop_events[i] = "batch"

\* The events of train_loop among those of the iteration of fit's loop.
IsTrainEvent(ev) == ev # "val_batch"
TrainEvents == SelectSeq(loop_events, IsTrainEvent)

\* The train_loop invocation that returned: on_train_epoch_start once and
\* first, then the batches, then on_train_epoch_end once and last; the
\* validation batches of the iteration all come after it.
LoopReturnedHooks ==
    /\ Len(TrainEvents) >= 2
    /\ TrainEvents[1] = "on_train_epoch_start"
    /\ TrainEvents[Len(TrainEvents)] = "on_train_epoch_end"
    /\ \A i \in 2..(Len(TrainEvents) - 1) : TrainEvents[i] = "batch"
    /\ SubSeq(loop_events, 1, Len(TrainEvents)) = TrainEvents

\* The order of the hooks within the last batch.
BatchHooksInOrder ==
    /\ batch_events[1] = "on_train_batch_start"
    /\ Precedes("on_train_batch_start", "model.training_step")
    /\ Precedes("model.training_step", "on_before_backward")
    /\ Precedes("on_before_backward", "fabric.backward")
    /\ Precedes("fabric.backward", "on_after_backward")
    /\ Precedes("on_after_backward", "on_train_batch_end")
    /\ SteppingBatch
          => /\ Precedes("on_before_optimizer_step", "optimizer.step")
             /\ Precedes("on_before_zero_grad", "optimizer.zero_grad")
             /\ Precedes("optimizer.step returns", "on_before_zero_grad")
             /\ Precedes("on_train_batch_end", "step_scheduler")
    /\ ~SteppingBatch
          => /\ CountOf(batch_events, "on_before_optimizer_step") = 0
             /\ CountOf(batch_events, "optimizer.zero_grad") = 0
             /\ CountOf(batch_events, "step_scheduler") = 0

\* C22: in every train_loop invocation that returns, on_train_epoch_start
\* fires once before any batch and on_train_epoch_end once after the last
\* processed batch, also when the epoch is ended by break; within a batch
\* on_train_batch_start is first, the backward hooks bracket the backward
\* call, on_train_batch_end follows the forward/backward, and on a stepping
\* batch on_before_optimizer_step precedes the optimizer step,
\* on_before_zero_grad the gradient clear, and the step-level scheduler call
\* follows on_train_batch_end.
C22_HookOrder ==
    /\ pc \in {"train", "train_end"} => LoopRunningHooks
    /\ pc \in {"validate", "val", "sched"} => LoopReturnedHooks
    /\ batch_events # <<>> => BatchHooksInOrder

\* An epoch was ended by break before the batch source was exhausted, after
\* a stepping batch, and train_loop has returned.
C22_Witness ==
    /\ pc = "validate"
    /\ SteppingBatch
    /\ LoopReturnedHooks
    /\ CountOf(loop_events, "batch") < train_loader

\* C23: with max_epochs = E, no step of a fit call takes current_epoch from
\* at most E to above E, and while current_epoch has reached E no step of a
\* fit call trains an epoch or writes a checkpoint, whatever fit calls came
\* before and with or without resumption.
C23_EpochsWithinMax ==
    [][(max_epochs # NONE /\ pc \notin {"idle", "error"})
          => /\ current_epoch <= max_epochs => current_epoch' <= max_epochs
             /\ current_epoch >= max_epochs
                   => /\ pc' # "train"
                      /\ fit_epochs' = fit_epochs
                      /\ fs' = fs]_vars

\* No validation batch completed in this iteration of fit's loop:
\* validation was not due, had no source, or ended before its first batch.
ValidationSkipped == CountOf(loop_events, "val_batch") = 0

\* The epoch-level scheduler call is due and monitors 'val_' + 'loss', the
\* model's steps returning mappings.
EpochValMonitorDue ==
    /\ pc = "sched"
    /\ scheduler_cfg.present
    /\ "scheduler" \in DOMAIN scheduler_cfg.m
    /\ scheduler_cfg.m.interval = "epoch"
    /\ current_epoch % scheduler_cfg.m.frequency = 0
    /\ scheduler_cfg.m.monitor = ValLoss
    /\ model.out_kind = "Mapping"

\* C24: the retained validation output changes only when a validation batch
\* completes; in an iteration whose validation is skipped the epoch-level
\* scheduler step takes for a 'val_' monitor the output of the last
\* validation batch of the epoch that validated last, and ends in the
\* unknown-monitor error when no validation batch has ever completed.
C24_StaleValidationOutput ==
    [][/\ current_val_return' # current_val_return
            => /\ pc = "val"
               /\ loop_events' = Append(loop_events, "val_batch")
       /\ (EpochValMonitorDue /\ ValidationSkipped)
            => IF val_epoch = NONE
               THEN /\ current_val_return = EmptyOut
                    /\ pc' = "error"
                    /\ error' = "KeyError"
                    /\ sched_steps' = sched_steps
               ELSE /\ sched_steps' = sched_steps + 1
                    /\ last_monitor' = ValValue(val_epoch, val_loader - 1)
                    /\ pc' = "while"]_vars

\* The epoch-level scheduler stepped on a validation loss of an earlier
\* epoch, validation having been skipped in its own.
C24_Witness ==
    /\ pc = "while"
    /\ ValidationSkipped
    /\ sched_call.made
    /\ sched_call.level = "epoch"
    /\ sched_call.kind = "step"
    /\ sched_call.cfg.m.monitor = ValLoss
    /\ val_epoch # NONE
    /\ val_epoch < sched_call.value
    /\ last_monitor = ValValue(val_epoch, val_loader - 1)

\* A fit call is under way.
FitRunning == pc \notin {"idle", "error"}

\* Neither limit can be reached any more: max_epochs is unset, the stop flag
\* is clear, and global_step is below max_steps at a value that is not a
\* multiple of grad_accum_steps, so that no later batch steps the optimizer
\* and none raises global_step.
NoLimitReachable ==
    /\ max_epochs = NONE
    /\ max_steps # NONE
    /\ ~should_stop
    /\ global_step < max_steps
    /\ global_step % grad_accum_steps # 0

\* C25: a fit call on a Trainer with max_epochs or max_steps configured
\* ends, whatever the accumulation factor; in particular it is never where
\* no limit can be reached any more.
C25_FitTerminates ==
    /\ [](FitRunning => ~NoLimitReachable)
    /\ (FitRunning /\ (max_epochs # NONE \/ max_steps # NONE))
           ~> ~FitRunning

\* The greatest epoch number save has written a checkpoint for.
GreatestEpochWritten ==
    CHOOSE e \in {written[n].current_epoch : n \in DOMAIN written} :
        \A n \in DOMAIN written : written[n].current_epoch <= e

\* C9: get_latest_checkpoint returns none for an absent or empty directory,
\* and otherwise the file save wrote for the greatest epoch number.
C9_LatestIsGreatestEpoch ==
    pc = "latest"
        => IF ~fs[checkpoint_dir].exists \/ fs[checkpoint_dir].files = {}
           THEN ~resumed.path.some
           ELSE resumed.path =
                   PathJoin(checkpoint_dir, CkptName(GreatestEpochWritten))

====
